---- MODULE Spec2Model ----
(***************************************************************************)
(* Model of sudoku_cli's grid renderer (src/tools/sudoku_view.py): the     *)
(* cell content providers, view() and the callers' operations on the board *)
(* and on the provider list (Spec); of its callback manager                *)
(* (src/tools/callback_manager.py, SpecCB); and of the commands of the     *)
(* command line that change the game (src/cli/sudoku.py, step.py, SpecCLI).*)
(*                                                                         *)
(* A Python str is a sequence of characters; a character is a TLA+ string. *)
(* The box-drawing characters are named by their code points ("u2501").    *)
(* None is NoneStr where a str is expected, NoneInt where an int is.       *)
(***************************************************************************)
EXTENDS Integers, Sequences, FiniteSets, TLC

VARIABLES
    size,           \* Sudoku.size: <<width, height>> of the boards
    sudoku,         \* the current board's numbers: [coordinate -> value], 0 is empty
    candidates,     \* the current board's stored candidate sets: [coordinate -> set]
    init_sudoku,    \* the initial board's numbers
    configs,        \* the list object the caller holds for custom_view_configs
    call,           \* what the last call of view() was given, did and returned
    manager,        \* a CallbackManager: callbacks, disabled, ignore_all_exceptions,
                    \* interrput_on_error
    result,         \* what the last operation on the manager did and how it ended
    cli             \* the rest of the command line's state: StepCLI.put_steps, the
                    \* file export wrote, and what the last command did and printed

vars == <<size, sudoku, candidates, init_sudoku, configs, call, manager, result, cli>>

\* The variables of the renderer and the variables of the callback manager
view_vars == <<size, sudoku, candidates, init_sudoku, configs, call>>
cb_vars == <<manager, result>>

\* None, where a str is expected, and where an int is expected
NoneStr == <<"<None>">>
NoneInt == 0 - 1

-----------------------------------------------------------------------------
(* Bounds of the model *)

\* view() appends to the caller's list on every call: calls that reuse the
\* list are allowed while the list is no longer than this.
MaxListLen == 2

-----------------------------------------------------------------------------
(* Characters *)

SP == " "
NL == "\n"
HeavyH == "u2501"
HeavyV == "u2503"
LightH == "u2500"
LightV == "u2502"
RuleThin == "u253F"
RuleThick == "u254B"
RuleLeft == "u2523"
RuleRight == "u252B"
TopLeft == "u250F"
TopRight == "u2513"
TopThick == "u2533"
TopThin == "u252F"
BotLeft == "u2517"
BotRight == "u251B"
BotThick == "u253B"
BotThin == "u2537"
ThinThin == "u253C"
ThinThick == "u2542"
ThinLeft == "u2520"
ThinRight == "u2528"

-----------------------------------------------------------------------------
(* Python's str operations *)

Max(a, b) == IF a >= b THEN a ELSE b

\* c * n
Rep(c, n) == [i \in 1..n |-> c]

DigitChars == <<"0", "1", "2", "3", "4", "5", "6", "7", "8", "9">>

\* str(n) for n >= 0
RECURSIVE Str(_)
Str(n) == IF n < 10 THEN <<DigitChars[n + 1]>>
          ELSE Str(n \div 10) \o <<DigitChars[(n % 10) + 1]>>

\* s.rjust(w), s.ljust(w)
RJust(s, w) == Rep(SP, w - Len(s)) \o s
LJust(s, w) == s \o Rep(SP, w - Len(s))

\* s.center(w): CPython pads left with marg/2 + (marg & w & 1)
Center(s, w) ==
    LET marg == w - Len(s)
        left == (marg \div 2) + (IF marg % 2 = 1 /\ w % 2 = 1 THEN 1 ELSE 0)
    IN  IF marg <= 0 THEN s
        ELSE Rep(SP, left) \o s \o Rep(SP, marg - left)

\* s.replace(a, b) for single characters a, b
Replace(s, a, b) == [i \in 1..Len(s) |-> IF s[i] = a THEN b ELSE s[i]]

\* sep.join(parts)
RECURSIVE Join(_, _)
Join(parts, sep) ==
    IF Len(parts) = 0 THEN <<>>
    ELSE IF Len(parts) = 1 THEN parts[1]
    ELSE parts[1] \o sep \o Join(Tail(parts), sep)

\* f"[{s}]", f"[/{s}]"
OpenTag(s) == <<"[">> \o s \o <<"]">>
CloseTag(s) == <<"[", "/">> \o s \o <<"]">>

\* f"[{s}]{text}[/{s}]"
Markup(s, text) == OpenTag(s) \o text \o CloseTag(s)

\* sorted(S) for a set of integers
RECURSIVE Sorted(_)
Sorted(S) ==
    IF S = {} THEN <<>>
    ELSE LET m == CHOOSE x \in S : \A y \in S : x <= y
         IN  <<m>> \o Sorted(S \ {m})

-----------------------------------------------------------------------------
(* sudokutools.sudoku.Sudoku, as view() and its callers use it *)

Width == size[1]
Height == size[2]

\* sudoku.indices: tuple(range(width * height))
Indices == 0..(Width * Height - 1)

\* sudoku.numbers: the values a cell may hold
Numbers == 1..(Width * Height)

\* for row, col in sudoku: every coordinate
Coords == Indices \X Indices

\* Sudoku.surrounding_of(row, col, include=False): the other cells of the row,
\* the column and the box (boxes are width columns wide and height rows tall)
SurroundingOf(idx) ==
    LET grid_y == idx[1] - (idx[1] % Height)
        grid_x == idx[2] - (idx[2] % Width)
    IN  ({<<idx[1], j>> : j \in Indices}
            \cup {<<i, idx[2]>> : i \in Indices}
            \cup {<<grid_y + i, grid_x + j>> : i \in 0..(Height - 1), j \in 0..(Width - 1)})
        \ {idx}

\* sudokutools.solve.calc_candidates
CalcCandidates(board, idx) ==
    IF board[idx] # 0 THEN {board[idx]}
    ELSE Numbers \ {board[o] : o \in SurroundingOf(idx)}

\* sudokutools.solve.init_candidates(sudoku): sets the candidates of every cell
InitCandidates(board) == [idx \in Coords |-> CalcCandidates(board, idx)]

\* FindConflicts that yields every conflicting pair once, from its first cell
FindConflictsOnce(board) ==
    UNION {{<<a, b, board[a]>> :
               b \in {o \in SurroundingOf(a) :
                         /\ board[o] = board[a]
                         /\ (a[1] < o[1] \/ (a[1] = o[1] /\ a[2] < o[2]))}} :
              a \in {x \in Coords : board[x] # 0}}

\* sudokutools.analyze.find_conflicts(sudoku): the set of the triples
\* ((row, col), (i, j), value) it yields
FindConflicts(board) ==
    UNION {{<<a, b, board[a]>> : b \in {o \in SurroundingOf(a) : board[o] = board[a]}} :
              a \in {x \in Coords : board[x] # 0}}

-----------------------------------------------------------------------------
(* The content providers (CustomViewConfig implementations) *)

\* The board a provider holds a reference to
BoardOf(name) == IF name = "init_sudoku" THEN init_sudoku ELSE sudoku

\* SudokuCustomViewConfig(sudoku=<board>, style=style)
SudokuCustomViewConfig(name, style) ==
    [kind |-> "sudoku", board |-> name, style |-> style, dict |-> <<>>, finds |-> 0]

\* StyledDictCustomViewConfig(dict=d, style=style)
StyledDictCustomViewConfig(d, style) ==
    [kind |-> "dict", board |-> "none", style |-> style, dict |-> d, finds |-> 0]

\* SudokuConflictsCustomViewConfig._init_conflict_dict: the first coordinate of
\* every conflict is flagged
InitConflictDict(board) ==
    [idx \in {c[1] : c \in FindConflicts(board)} |-> TRUE]

\* conflict_dict = None, where a dict of coordinates is expected
NoneDict == (<<0 - 1, 0 - 1>> :> FALSE)

\* SudokuConflictsCustomViewConfig(sudoku=self.sudoku, conflict_style=style):
\* conflict_dict is None, then _init_conflict_dict() sets it; finds counts the
\* calls of find_conflicts the provider has made
SudokuConflictsCustomViewConfig(style) ==
    [kind |-> "conflict", board |-> "sudoku", style |-> style,
     dict |-> InitConflictDict(sudoku), finds |-> 1]

\* EnsureConflictDictGenerated without the test of conflict_dict: the dict is
\* generated again on every use
EnsureRegenerated(config) ==
    IF config.kind = "conflict"
    THEN [config EXCEPT !.dict = InitConflictDict(sudoku), !.finds = @ + 1]
    ELSE config

\* SudokuConflictsCustomViewConfig._ensure_conflict_dict_generated, which
\* _get_item_number runs first: the provider after it
EnsureConflictDictGenerated(config) ==
    IF config.kind = "conflict" /\ config.dict = NoneDict
    THEN [config EXCEPT !.dict = InitConflictDict(sudoku), !.finds = @ + 1]
    ELSE config

\* StyledContentCustomViewMixin._get_styled
GetStyled(style, raw) ==
    IF raw = NoneStr THEN NoneStr
    ELSE IF style = NoneStr THEN raw
    ELSE Markup(style, raw)

\* SudokuCustomViewConfig._get_raw_content, StyledDictCustomViewConfig._get_raw_content
GetRawContent(config, idx) ==
    IF config.kind = "sudoku"
    THEN LET num == BoardOf(config.board)[idx]
         IN  IF num = 0 THEN NoneStr ELSE Str(num)
    ELSE IF idx \in DOMAIN config.dict THEN config.dict[idx] ELSE NoneStr

\* GetItemNumber that looks at the cell again: None for a flagged cell that
\* is empty now
GetItemNumberIfFilled(config, idx) ==
    IF idx \in DOMAIN config.dict /\ sudoku[idx] # 0 THEN sudoku[idx] ELSE NoneInt

\* SudokuConflictsCustomViewConfig._get_item_number
GetItemNumber(config, idx) ==
    IF idx \in DOMAIN config.dict THEN sudoku[idx] ELSE NoneInt

\* config[row, col]: __getitem__ of the three classes
GetItem(config, idx) ==
    IF config.kind = "conflict"
    THEN LET num == GetItemNumber(config, idx)
         IN  IF num = NoneInt THEN NoneStr
             ELSE IF config.style # NoneStr THEN Markup(config.style, Str(num))
             ELSE Str(num)
    ELSE GetStyled(config.style, GetRawContent(config, idx))

\* DisplayLength that measures the fragment __getitem__ returns, markup included
DisplayLengthOfFragment(config, idx) ==
    LET frag == GetItem(config, idx)
    IN  IF frag = NoneStr THEN 0 ELSE Len(frag)

\* config.display_length((row, col))
DisplayLength(config, idx) ==
    IF config.kind = "conflict"
    THEN LET num == GetItemNumber(config, idx)
         IN  IF num = NoneInt THEN 0 ELSE Len(Str(num))
    ELSE LET raw == GetRawContent(config, idx)
         IN  IF raw = NoneStr THEN 0 ELSE Len(raw)

\* The coordinates max_display_length iterates: iter_indices() of the board
\* and dict providers, conflict_dict.keys() of the conflict provider
IterIndices(config) ==
    IF config.kind = "sudoku" THEN Coords ELSE DOMAIN config.dict

\* max over a set of non-negative lengths, 0 for none (max_len = 0; max(l, max_len))
MaxOf(S) == IF S = {} THEN 0 ELSE CHOOSE m \in S : \A x \in S : x <= m

\* config.max_display_length()
MaxDisplayLength(config) ==
    MaxOf({DisplayLength(config, idx) : idx \in IterIndices(config)})

-----------------------------------------------------------------------------
(* view(): an argument record a holds the keyword arguments of one call;     *)
(* a.use_list says whether the caller's list is passed as                    *)
(* custom_view_configs (or None), a.with_init whether init_sudoku is passed  *)

\* EffectiveConfigs with view()'s providers put in front of the caller's
OwnConfigsFirst(a) ==
    (IF a.with_init
     THEN <<SudokuCustomViewConfig("init_sudoku", a.init_style)>>
     ELSE <<>>)
        \o <<SudokuCustomViewConfig("sudoku", a.style)>>
        \o (IF a.use_list THEN configs ELSE <<>>)

\* custom_view_configs after view() has appended its own providers to it
EffectiveConfigs(a) ==
    (IF a.use_list THEN configs ELSE <<>>)
        \o (IF a.with_init
            THEN <<SudokuCustomViewConfig("init_sudoku", a.init_style)>>
            ELSE <<>>)
        \o <<SudokuCustomViewConfig("sudoku", a.style)>>

\* The providers of the list once view() has used them: every __getitem__ and
\* display_length of a conflict provider runs _ensure_conflict_dict_generated
EnsuredConfigs(cfgs) == [i \in 1..Len(cfgs) |-> EnsureConflictDictGenerated(cfgs[i])]

\* max([config.max_display_length() for config in custom_view_configs])
MaxLength(cfgs) == MaxOf({MaxDisplayLength(cfgs[i]) : i \in 1..Len(cfgs)})

\* number_sep
NumberSep(max_length) == IF max_length > 1 THEN <<",">> ELSE <<>>

\* SortedStrs without sorted(): the values in another order (largest first)
UnsortedStrs(cset) ==
    LET srt == Sorted(cset) IN [i \in 1..Len(srt) |-> Str(srt[Len(srt) + 1 - i])]

\* [str(x) for x in sorted(cset)]
SortedStrs(cset) == LET srt == Sorted(cset) IN [i \in 1..Len(srt) |-> Str(srt[i])]

\* candidate_prefix + number_sep.join([str(x) for x in sorted(cset)])
CandidateText(prefix, sep, cset) == prefix \o Join(SortedStrs(cset), sep)

\* The length of number_sep.join([str(n) for n in cset]) plus len(prefix): the
\* join of the width loop is not sorted, which leaves its length the same
CandidateLength(prefix, sep, cset) == Len(Join(SortedStrs(cset), sep)) + Len(prefix)

\* max_field_length: max_length, raised by the candidate text of every
\* coordinate of the board when include_candidates
MaxFieldLength(max_length, include, prefix, sep, cands) ==
    IF include
    THEN Max(max_length,
             MaxOf({CandidateLength(prefix, sep, cands[idx]) : idx \in Coords}))
    ELSE max_length

\* The labels of the header: for i in range(1, 10)
HeaderLabels == <<1, 2, 3, 4, 5, 6, 7, 8, 9>>

RECURSIVE Concat(_)
Concat(parts) == IF Len(parts) = 0 THEN <<>> ELSE parts[1] \o Concat(Tail(parts))

\* row_indices
RowIndices(f, index_style) ==
    Markup(index_style,
           <<SP, SP, SP>> \o
           Concat([i \in 1..Len(HeaderLabels) |-> Center(Str(HeaderLabels[i]), f + 3)]))

\* The body of rule and of thin_rule: width - 1 groups of width segments, the
\* last one of a group followed by the thick junction, then width - 1 segments
\* followed by the thin junction, then one segment
RuleBody(line, thin, thick, f) ==
    LET seg == Rep(line, f + 2)
        group == Concat([j \in 1..Width |->
                            seg \o <<IF j - 1 < Width - 1 THEN thin ELSE thick>>])
    IN  Concat([i \in 1..(Width - 1) |-> group])
            \o Concat([j \in 1..(Width - 1) |-> seg \o <<thin>>])
            \o seg

\* rule, thin_rule
Rule(f) == <<RuleLeft>> \o RuleBody(HeavyH, RuleThin, RuleThick, f) \o <<RuleRight, NL>>
ThinRule(f) == <<ThinLeft>> \o RuleBody(LightH, ThinThin, ThinThick, f) \o <<ThinRight, NL>>

\* first_rule, last_rule
FirstRule(f) ==
    <<SP, SP>> \o Replace(Replace(Replace(Replace(Rule(f),
        RuleLeft, TopLeft), RuleRight, TopRight), RuleThick, TopThick), RuleThin, TopThin)
LastRule(f) ==
    <<SP, SP>> \o Replace(Replace(Replace(Replace(Rule(f),
        RuleLeft, BotLeft), RuleRight, BotRight), RuleThick, BotThick), RuleThin, BotThin)

\* FirstAnswer without the break: the last config that returns content wins
RECURSIVE LastAnswer(_, _, _)
LastAnswer(cfgs, idx, i) ==
    IF i > Len(cfgs) THEN 0
    ELSE LET rest == LastAnswer(cfgs, idx, i + 1)
         IN  IF rest # 0 THEN rest
             ELSE IF GetItem(cfgs[i], idx) # NoneStr THEN i ELSE 0

\* for config in custom_view_configs: ... break: the position in the list of the
\* first config, from position i on, that returns content for idx; 0 for none
RECURSIVE FirstAnswer(_, _, _)
FirstAnswer(cfgs, idx, i) ==
    IF i > Len(cfgs) THEN 0
    ELSE IF GetItem(cfgs[i], idx) # NoneStr THEN i
    ELSE FirstAnswer(cfgs, idx, i + 1)

\* is_candidate_grid, for a cell whose first answering config is at position w
IsCandidateGrid(w, idx, include) == w = 0 /\ sudoku[idx] = 0 /\ include

\* val, before it is justified
CellVal(cfgs, w, idx, include, prefix, sep, cands) ==
    IF w # 0 THEN GetItem(cfgs[w], idx)
    ELSE IF IsCandidateGrid(w, idx, include)
         THEN CandidateText(prefix, sep, cands[idx])
    ELSE <<>>

\* length_in_config
LengthInConfig(cfgs, w, idx) ==
    IF w # 0 THEN DisplayLength(cfgs[w], idx) ELSE NoneInt

\* JustifyLength that justifies by the raw length of val
JustifyRawLength(f, val, length_in_config) == f

\* max_field_length_used_when_justify
JustifyLength(f, val, length_in_config) ==
    IF length_in_config # NoneInt THEN f + Len(val) - length_in_config ELSE f

\* val, justified and, for a candidate grid, wrapped in candidate_style
Justified(val, used, align_right, candidate_style, is_candidate_grid) ==
    LET j == IF align_right THEN RJust(val, used) ELSE LJust(val, used)
    IN  IF candidate_style # NoneStr /\ is_candidate_grid
        THEN Markup(candidate_style, j)
        ELSE j

\* The literal 9 of `elif (cc + 1) < 9` and of `elif (rc + 1) < 9`
ThinLimit == 9

\* The separator appended to col_str after column cc (0-based), <<>> for none
ColSeparator(cc) ==
    IF (cc + 1) % Width = 0 /\ cc < Width * Height - 1 THEN <<<<HeavyV>>>>
    ELSE IF cc + 1 < ThinLimit THEN <<<<LightV>>>>
    ELSE <<>>

\* What follows the joined row rc (0-based) in s: the line break, the indent
\* and the rule
RowTail(rc, f) ==
    (IF rc < Width * Height - 1 THEN <<NL>> ELSE <<>>)
        \o <<SP, SP>>
        \o (IF (rc + 1) % Height = 0 /\ rc < Width * Height - 1 THEN Rule(f)
            ELSE IF rc + 1 < ThinLimit THEN ThinRule(f)
            ELSE <<>>)

\* ReadCandidates with init_candidates called only after the table is built
ReadStoredCandidates(include) == candidates

\* The candidate sets sudoku.get_candidates returns inside view(): with
\* include_candidates, init_candidates(sudoku) has been called before any read
ReadCandidates(include) == IF include THEN InitCandidates(sudoku) ELSE candidates

\* The coordinates sudoku.get_candidates is called for in one call of view():
\* every coordinate of the board in the width loop, and the candidate grids
\* in the row loop
CandidateLookups(include, winner) ==
    (IF include THEN Coords ELSE {})
        \cup {idx \in Coords : IsCandidateGrid(winner[idx], idx, include)}

\* One call of view() with the arguments a on the current state: the string s
\* it returns and the values of its local variables, per cell in `cell`;
\* passed is custom_view_configs as it was when it was passed ([] for None), and
\* raised is FALSE: view() has no raise statement and none of its steps fails
ViewRun(a) ==
    LET cfgs == EnsuredConfigs(EffectiveConfigs(a))
        max_length == MaxLength(cfgs)
        number_sep == NumberSep(max_length)
        cands == ReadCandidates(a.include_candidates)
        f == MaxFieldLength(max_length, a.include_candidates, a.candidate_prefix,
                            number_sep, cands)
        cell == [idx \in Coords |->
                    LET w == FirstAnswer(cfgs, idx, 1)
                        val == CellVal(cfgs, w, idx, a.include_candidates,
                                       a.candidate_prefix, number_sep, cands)
                        length_in_config == LengthInConfig(cfgs, w, idx)
                    IN  [winner |-> w,
                         val |-> val,
                         length_in_config |-> length_in_config,
                         col |-> Justified(val, JustifyLength(f, val, length_in_config),
                                           a.align_right, a.candidate_style,
                                           IsCandidateGrid(w, idx, a.include_candidates))]]
        n == Width * Height
        col_str == [row \in Indices |->
                       Concat([cc \in 1..n |->
                                  <<cell[<<row, cc - 1>>].col>> \o ColSeparator(cc - 1)])]
        final_col_str(row) ==
            <<Markup(a.index_style, Str(row + 1)), <<HeavyV>>>> \o col_str[row] \o <<<<HeavyV>>>>
        rows == Concat([rc \in 1..n |->
                           Join(final_col_str(rc - 1), <<SP>>) \o RowTail(rc - 1, f)])
    IN  [configs |-> cfgs,
         passed |-> IF a.use_list THEN configs ELSE <<>>,
         raised |-> FALSE,
         max_length |-> max_length,
         number_sep |-> number_sep,
         max_field_length |-> f,
         cell |-> cell,
         seps |-> [k \in 1..n |-> ColSeparator(k - 1)],
         lookups |-> CandidateLookups(a.include_candidates,
                                      [idx \in Coords |-> cell[idx].winner]),
         s |-> RowIndices(f, a.index_style) \o <<NL>> \o FirstRule(f) \o rows
                   \o <<NL>> \o LastRule(f)]

-----------------------------------------------------------------------------
(* CallbackManager (src/tools/callback_manager.py)                           *)
(* self.callbacks maps a signal to a dict of key -> function; a dict is the  *)
(* sequence of its [key, fn] entries in insertion order. A callback function *)
(* is a record: its __name__, the value it returns (or resolves to, when it  *)
(* is async), whether it is async, and whether it raises.                    *)

\* key = None, where a key is expected
NoneKey == "<None>"

\* CallbackManager.__init__
NewCallbackManager ==
    [callbacks |-> <<>>, disabled |-> FALSE, ignore_all_exceptions |-> FALSE,
     interrput_on_error |-> FALSE]

\* No operation on the manager has run since its attributes were last set
NoResult ==
    [op |-> "none", signal |-> "none", outcome |-> "none", key |-> NoneKey, invoked |-> <<>>]

\* No StepCLI has been made, export has written no file, self.sudoku and
\* self.init_sudoku are two objects, no command has run
NoFile == [sudoku |-> NoneStr, init_sudoku |-> NoneStr]
NoCommand == [cmd |-> "none"]
NewCli ==
    [step_cli |-> FALSE, put_steps |-> <<>>, file |-> NoFile, aliased |-> FALSE,
     last |-> NoCommand]

\* The keys of a dict
DictKeys(d) == {d[i].key : i \in 1..Len(d)}

\* d[key] = fn: a new key goes last, an existing key keeps its place
DictSet(d, key, fn) ==
    IF key \in DictKeys(d)
    THEN [i \in 1..Len(d) |-> IF d[i].key = key THEN [key |-> key, fn |-> fn] ELSE d[i]]
    ELSE Append(d, [key |-> key, fn |-> fn])

\* del d[key]
DictDel(d, key) == SelectSeq(d, LAMBDA e : e.key # key)

\* self.callbacks after self.callbacks.setdefault(signal, {})
SetDefault(cbs, signal) ==
    IF signal \in DOMAIN cbs THEN cbs ELSE cbs @@ (signal :> <<>>)

\* res == False: Python's equality, under which the int 0 equals False
PyEqFalse(res) == res \in {"False", "0"}

\* res = fn(*args, **kwargs), and for trigger `res = await res` of an
\* awaitable: whether an exception is raised inside the try, and res. An async
\* function only runs when it is awaited: trigger_sync gets its awaitable
CallFn(fn, op) ==
    IF fn.async /\ op = "trigger_sync" THEN [raised |-> FALSE, res |-> "awaitable"]
    ELSE IF fn.raises THEN [raised |-> TRUE, res |-> "None"]
    ELSE [raised |-> FALSE, res |-> fn.ret]

\* Escapes that re-raises whatever ignore_all_exceptions is
EscapesAlways(c) == c.raised

\* except: if not self.ignore_all_exceptions: raise
Escapes(c) == c.raised /\ ~manager.ignore_all_exceptions

\* InterruptsOnError that never takes an exception for an interrupt
InterruptsOnErrorNever(c) == FALSE

\* if self.interrput_on_error: ..., reached only by an exception that was
\* not re-raised
InterruptsOnError(c) == c.raised /\ manager.interrput_on_error

\* RunCallbacks with a break after the callback that interrupts
RECURSIVE RunCallbacksUntilInterrupt(_, _, _, _)
RunCallbacksUntilInterrupt(cb_dict, i, op, st) ==
    IF i > Len(cb_dict) \/ ~st.interrput_signal_received THEN st
    ELSE LET k == cb_dict[i].key
             c == CallFn(cb_dict[i].fn, op)
             inv == Append(st.invoked, k)
         IN  IF Escapes(c)
             THEN [st EXCEPT !.invoked = inv, !.escaped = TRUE]
             ELSE LET stop == InterruptsOnError(c) \/ PyEqFalse(c.res)
                  IN  RunCallbacksUntilInterrupt(cb_dict, i + 1, op,
                          [interrput_signal_received |->
                               IF stop THEN FALSE ELSE st.interrput_signal_received,
                           interrput_key |-> IF stop THEN k ELSE st.interrput_key,
                           invoked |-> inv,
                           escaped |-> FALSE])

\* for k, fn in cb_dict.items(): the loop of trigger and trigger_sync from
\* entry i on; st holds interrput_signal_received, interrput_key, the keys of
\* the callbacks invoked so far and whether an exception has escaped
RECURSIVE RunCallbacks(_, _, _, _)
RunCallbacks(cb_dict, i, op, st) ==
    IF i > Len(cb_dict) THEN st
    ELSE LET k == cb_dict[i].key
             c == CallFn(cb_dict[i].fn, op)
             inv == Append(st.invoked, k)
         IN  IF Escapes(c)
             THEN [st EXCEPT !.invoked = inv, !.escaped = TRUE]
             ELSE LET stop == InterruptsOnError(c) \/ PyEqFalse(c.res)
                  IN  RunCallbacks(cb_dict, i + 1, op,
                          [interrput_signal_received |->
                               IF stop THEN FALSE ELSE st.interrput_signal_received,
                           interrput_key |-> IF stop THEN k ELSE st.interrput_key,
                           invoked |-> inv,
                           escaped |-> FALSE])

\* How trigger(signal) or trigger_sync(signal) ends
TriggerResult(op, signal) ==
    IF manager.disabled
    THEN [op |-> op, signal |-> signal, outcome |-> "returned", key |-> NoneKey,
          invoked |-> <<>>]
    ELSE LET st == RunCallbacks(SetDefault(manager.callbacks, signal)[signal], 1, op,
                       [interrput_signal_received |-> TRUE, interrput_key |-> NoneKey,
                        invoked |-> <<>>, escaped |-> FALSE])
         IN  [op |-> op, signal |-> signal,
              outcome |-> IF st.escaped THEN "exception"
                          ELSE IF ~st.interrput_signal_received THEN "CallbackInterrupted"
                          ELSE "returned",
              key |-> IF ~st.escaped /\ ~st.interrput_signal_received
                      THEN st.interrput_key ELSE NoneKey,
              invoked |-> st.invoked]

-----------------------------------------------------------------------------
(* The inputs of the model *)

\* (width, height) of the boards: the 9 x 9 board of a generated game, a board
\* that loadgame decodes from a shorter string, and a board of a negative
\* dimension
Sizes == {<<3, 3>>, <<2, 2>>, <<3, 2>>, <<0 - 1, 2>>}

\* The given cells of a generated board, where they fit on it
Givens == (<<0, 3>> :> 1) @@ (<<1, 3>> :> 2) @@ (<<1, 4>> :> 4) @@ (<<1, 5>> :> 5)
              @@ (<<3, 1>> :> 6) @@ (<<4, 1>> :> 7) @@ (<<5, 1>> :> 8)

GivenBoard ==
    [idx \in Coords |->
        IF idx \in DOMAIN Givens /\ Givens[idx] \in Numbers THEN Givens[idx] ELSE 0]

EmptyBoard == [idx \in Coords |-> 0]

\* The cells and values of the puts
PutCoords == {<<0, 0>>} \cap Coords
PutValues == {0, 1}

\* Style strings
IndexStyle == <<"y">>
ConflictStyle == <<"r", "b">>
FilledStyle == <<"c">>
InitStyle == <<"w">>
CandidateStyle == <<"g">>
OverlayStyle == <<"m">>
Prefix == <<"*">>

\* A dict of overlay texts
OverlayDict == (<<0, 0>> :> <<"x">>) @@ (<<1, 1>> :> <<"a", "b">>)

\* The arguments of a call: the styled, right-aligned calls (do_show's, with
\* or without -c, and the same without the caller's list or the initial
\* board), the same calls left-aligned on the caller's list, and calls that
\* leave style and candidate_style at their default, None
ViewArgs ==
    [with_init : BOOLEAN, include_candidates : BOOLEAN, use_list : BOOLEAN,
     align_right : {TRUE}, candidate_prefix : {Prefix}, index_style : {IndexStyle},
     candidate_style : {CandidateStyle}, init_style : {InitStyle}, style : {FilledStyle}]
    \cup
    [with_init : {TRUE}, include_candidates : BOOLEAN, use_list : {TRUE},
     align_right : {FALSE}, candidate_prefix : {Prefix}, index_style : {IndexStyle},
     candidate_style : {CandidateStyle}, init_style : {InitStyle}, style : {FilledStyle}]
    \cup
    [with_init : {FALSE}, include_candidates : BOOLEAN, use_list : {FALSE},
     align_right : {TRUE}, candidate_prefix : {Prefix}, index_style : {IndexStyle},
     candidate_style : {NoneStr}, init_style : {InitStyle}, style : {NoneStr}]

-----------------------------------------------------------------------------
(* The state machine *)

\* No call of view() is running or has just returned
NoCall == [stage |-> "idle"]

Init ==
    /\ size \in Sizes
    /\ init_sudoku \in {EmptyBoard, GivenBoard}
    /\ sudoku = init_sudoku
    /\ candidates = [idx \in Coords |-> {}]
    /\ configs = <<>>
    /\ call = NoCall
    /\ manager = NewCallbackManager
    /\ result = NoResult
    /\ cli = NewCli

\* self.sudoku[row, col] = value, of a cell that is not a given one
SetItem(idx, v) ==
    /\ call.stage # "called"
    /\ init_sudoku[idx] = 0
    /\ sudoku' = [sudoku EXCEPT ![idx] = v]
    /\ call' = NoCall
    /\ UNCHANGED <<size, candidates, init_sudoku, configs, cb_vars, cli>>

\* The caller makes a new list that holds a new conflict provider
NewConflictConfig ==
    /\ call.stage # "called"
    /\ configs' = <<SudokuConflictsCustomViewConfig(ConflictStyle)>>
    /\ call' = NoCall
    /\ UNCHANGED <<size, sudoku, candidates, init_sudoku, cb_vars, cli>>

\* The caller puts a new dict provider in front of a list that view() has not
\* been given yet: custom_view_configs=[dict_config], or
\* custom_view_configs=[dict_config, conflict_config]
NewDictConfig ==
    /\ call.stage # "called"
    /\ DOMAIN OverlayDict \subseteq Coords
    /\ \A i \in 1..Len(configs) : configs[i].kind = "conflict"
    /\ configs' = <<StyledDictCustomViewConfig(OverlayDict, OverlayStyle)>> \o configs
    /\ call' = NoCall
    /\ UNCHANGED <<size, sudoku, candidates, init_sudoku, cb_vars, cli>>

\* The caller calls view() with the arguments a; `again` records that the call
\* that has just returned had the same arguments, and prev_s what it returned
CallView(a) ==
    /\ call.stage # "called"
    /\ a.use_list => Len(configs) <= MaxListLen
    /\ LET again == call.stage = "returned" /\ call.args = a
       IN  call' = [stage |-> "called", args |-> a, again |-> again,
                    prev_s |-> IF again THEN call.s ELSE NoneStr]
    /\ UNCHANGED <<size, sudoku, candidates, init_sudoku, configs, cb_vars, cli>>

\* The body of view(): it appends its providers to the list it was given, sets
\* the candidates of the board when include_candidates, and returns s
View ==
    /\ call.stage = "called"
    /\ call' = [stage |-> "returned", args |-> call.args, again |-> call.again,
                prev_s |-> call.prev_s] @@ ViewRun(call.args)
    /\ configs' = IF call.args.use_list THEN EnsuredConfigs(EffectiveConfigs(call.args))
                  ELSE configs
    /\ candidates' = IF call.args.include_candidates THEN InitCandidates(sudoku)
                     ELSE candidates
    /\ UNCHANGED <<size, sudoku, init_sudoku, cb_vars, cli>>

Next ==
    \/ \E idx \in PutCoords, v \in PutValues : SetItem(idx, v)
    \/ NewConflictConfig
    \/ NewDictConfig
    \/ \E a \in ViewArgs : CallView(a)
    \/ View

Spec == Init /\ [][Next]_vars

-----------------------------------------------------------------------------
(* The callback manager's operations *)

\* At most this many callbacks are registered at a time, over all signals
MaxCallbacks == 2

\* The signals of SudokuCLI.put_callbacks
Signals == {"before", "after"}

\* The callback functions: one that returns None, one that returns the bool
\* False, one that returns the int 0, one that raises, and an async one that
\* resolves to False
Fns ==
    {[name |-> "ok", ret |-> "None", async |-> FALSE, raises |-> FALSE],
     [name |-> "no", ret |-> "False", async |-> FALSE, raises |-> FALSE],
     [name |-> "zero", ret |-> "0", async |-> FALSE, raises |-> FALSE],
     [name |-> "boom", ret |-> "None", async |-> FALSE, raises |-> TRUE],
     [name |-> "ano", ret |-> "False", async |-> TRUE, raises |-> FALSE]}

\* The key argument of add and remove: None, or an explicit key, which is
\* also the __name__ of a function
KeyArgs == {NoneKey, "ok"}

\* The number of callbacks registered over all signals
Registered(cbs) ==
    LET n(s) == IF s \in DOMAIN cbs THEN Len(cbs[s]) ELSE 0
    IN  n("before") + n("after")

InitCB ==
    /\ size = <<2, 2>>
    /\ init_sudoku = EmptyBoard
    /\ sudoku = init_sudoku
    /\ candidates = [idx \in Coords |-> {}]
    /\ configs = <<>>
    /\ call = NoCall
    /\ manager = NewCallbackManager
    /\ result = NoResult
    /\ cli = NewCli

\* CallbackManager.add(signal, fn, key): the assignment to the dict raises no
\* KeyError, so the except branch is never taken
Add(signal, fn, key) ==
    LET k == IF key = NoneKey THEN fn.name ELSE key
        cbs == SetDefault(manager.callbacks, signal)
    IN  /\ k \notin DictKeys(cbs[signal]) => Registered(manager.callbacks) < MaxCallbacks
        /\ manager' = [manager EXCEPT
                           !.callbacks = [cbs EXCEPT ![signal] = DictSet(cbs[signal], k, fn)]]
        /\ result' = [op |-> "add", signal |-> signal, outcome |-> "returned",
                      key |-> k, invoked |-> <<>>]
        /\ UNCHANGED <<view_vars, cli>>

\* CallbackManager.remove(signal, key): del raises KeyError when the signal
\* or the key is not there, and remove raises a KeyError of its own
Remove(signal, key) ==
    LET found == signal \in DOMAIN manager.callbacks
                     /\ key \in DictKeys(manager.callbacks[signal])
    IN  /\ manager' = IF found
                      THEN [manager EXCEPT
                                !.callbacks[signal] = DictDel(manager.callbacks[signal], key)]
                      ELSE manager
        /\ result' = [op |-> "remove", signal |-> signal,
                      outcome |-> IF found THEN "returned" ELSE "KeyError",
                      key |-> key, invoked |-> <<>>]
        /\ UNCHANGED <<view_vars, cli>>

\* CallbackManager.clear()
Clear ==
    /\ manager' = [manager EXCEPT !.callbacks = <<>>]
    /\ result' = [NoResult EXCEPT !.op = "clear", !.outcome = "returned"]
    /\ UNCHANGED <<view_vars, cli>>

\* self.disabled = b, self.ignore_all_exceptions = b, self.interrput_on_error = b
SetDisabled(b) ==
    /\ manager' = [manager EXCEPT !.disabled = b]
    /\ result' = NoResult
    /\ UNCHANGED <<view_vars, cli>>

SetIgnoreAllExceptions(b) ==
    /\ manager' = [manager EXCEPT !.ignore_all_exceptions = b]
    /\ result' = NoResult
    /\ UNCHANGED <<view_vars, cli>>

SetInterrputOnError(b) ==
    /\ manager' = [manager EXCEPT !.interrput_on_error = b]
    /\ result' = NoResult
    /\ UNCHANGED <<view_vars, cli>>

\* await trigger(signal), trigger_sync(signal): a manager that is not
\* disabled makes the dict of an unknown signal, then runs the callbacks
Trigger(op, signal) ==
    /\ manager' = IF manager.disabled THEN manager
                  ELSE [manager EXCEPT !.callbacks = SetDefault(manager.callbacks, signal)]
    /\ result' = TriggerResult(op, signal)
    /\ UNCHANGED <<view_vars, cli>>

NextCB ==
    \/ \E signal \in Signals, fn \in Fns, key \in KeyArgs : Add(signal, fn, key)
    \/ \E signal \in Signals, key \in KeyArgs \ {NoneKey} : Remove(signal, key)
    \/ Clear
    \/ \E b \in BOOLEAN : SetDisabled(b)
    \/ \E b \in BOOLEAN : SetIgnoreAllExceptions(b)
    \/ \E b \in BOOLEAN : SetInterrputOnError(b)
    \/ \E op \in {"trigger", "trigger_sync"}, signal \in Signals : Trigger(op, signal)

SpecCB == InitCB /\ [][NextCB]_vars

-----------------------------------------------------------------------------
(* Reading a returned table *)

Returned == call.stage = "returned"

\* The lines of s: the pieces between its line breaks
Lines(s) ==
    LET brk == Sorted({i \in 1..Len(s) : s[i] = NL})
        from(k) == IF k = 1 THEN 1 ELSE brk[k - 1] + 1
        to(k) == IF k > Len(brk) THEN Len(s) ELSE brk[k] - 1
    IN  [k \in 1..(Len(brk) + 1) |-> SubSeq(s, from(k), to(k))]

\* A line with its style markup removed: the characters outside [...] tags
RECURSIVE StripFrom(_, _, _)
StripFrom(line, i, in_tag) ==
    IF i > Len(line) THEN <<>>
    ELSE IF line[i] = "[" THEN StripFrom(line, i + 1, TRUE)
    ELSE IF line[i] = "]" THEN StripFrom(line, i + 1, FALSE)
    ELSE IF in_tag THEN StripFrom(line, i + 1, TRUE)
    ELSE <<line[i]>> \o StripFrom(line, i + 1, FALSE)

StripMarkup(line) == StripFrom(line, 1, FALSE)

\* The data rows of s: its lines with a heavy vertical bar
DataRows(s) == SelectSeq(Lines(s), LAMBDA l : \E i \in 1..Len(l) : l[i] = HeavyV)

\* The words of a line: its maximal runs of characters other than spaces
Words(line) ==
    {<<i, j>> \in (1..Len(line)) \X (1..Len(line)) :
        /\ i <= j
        /\ \A k \in i..j : line[k] # SP
        /\ (i = 1 \/ line[i - 1] = SP)
        /\ (j = Len(line) \/ line[j + 1] = SP)}

\* text without the spaces before and after it
Trimmed(text) ==
    LET ink == {i \in 1..Len(text) : text[i] # SP}
    IN  IF ink = {} THEN <<>>
        ELSE SubSeq(text, CHOOSE i \in ink : \A j \in ink : i <= j,
                          CHOOSE i \in ink : \A j \in ink : j <= i)

\* The positions in a list of the configs that return content for idx
Answering(cfgs, idx) == {i \in 1..Len(cfgs) : GetItem(cfgs[i], idx) # NoneStr}

-----------------------------------------------------------------------------
(* C1 *)

\* C1: for every cell for which a provider of the effective list returns a
\* fragment, the rendered content is the fragment of the earliest such
\* provider, filled cell or not.
C1_EarliestProviderWins ==
    Returned =>
        \A idx \in Coords :
            \A i \in Answering(call.configs, idx) :
                (\A j \in Answering(call.configs, idx) : i <= j) =>
                    /\ call.cell[idx].val = GetItem(call.configs[i], idx)
                    /\ Trimmed(call.cell[idx].col) = GetItem(call.configs[i], idx)

\* Two providers answer differently for a filled cell and the earlier one shows
C1_Witness ==
    /\ Returned
    /\ \E idx \in Coords :
           \E i, j \in Answering(call.configs, idx) :
               /\ i < j
               /\ sudoku[idx] # 0
               /\ GetItem(call.configs[i], idx) # GetItem(call.configs[j], idx)
               /\ call.cell[idx].val = GetItem(call.configs[i], idx)

-----------------------------------------------------------------------------
(* C2 *)

\* The values of a set, smallest first, as decimal strings
RECURSIVE Ascending(_)
Ascending(S) ==
    IF S = {} THEN <<>>
    ELSE LET top == CHOOSE x \in S : \A y \in S : y <= x
         IN  Ascending(S \ {top}) \o <<Str(top)>>

\* C2: with include_candidates, an empty cell for which no provider answers
\* shows candidate_prefix followed by the cell's candidates in ascending
\* order, joined by the separator.
C2_CandidateFallback ==
    (Returned /\ call.args.include_candidates) =>
        \A idx \in Coords :
            (sudoku[idx] = 0 /\ Answering(call.configs, idx) = {}) =>
                call.cell[idx].val =
                    call.args.candidate_prefix
                        \o Join(Ascending(candidates[idx]), call.number_sep)

\* The 9 x 9 board whose cell (1, 1) has the candidates 1, 3 and 9 shows "*139"
C2_Witness ==
    /\ Returned
    /\ call.args.include_candidates
    /\ size = <<3, 3>>
    /\ sudoku[<<1, 1>>] = 0
    /\ Answering(call.configs, <<1, 1>>) = {}
    /\ candidates[<<1, 1>>] = {1, 3, 9}
    /\ call.args.candidate_prefix = <<"*">>
    /\ call.cell[<<1, 1>>].val = <<"*", "1", "3", "9">>

-----------------------------------------------------------------------------
(* C3 *)

\* C3: every data row of the returned string, the first and the last one
\* included, has the same number of characters once the markup is removed.
C3_DataRowsSameWidth ==
    Returned =>
        LET rows == DataRows(call.s)
        IN  \A i, j \in 1..Len(rows) :
                Len(StripMarkup(rows[i])) = Len(StripMarkup(rows[j]))

-----------------------------------------------------------------------------
(* C4 *)

\* The header line of s, without its markup
Header(s) == StripMarkup(Lines(s)[1])

\* C4: for a board of block dimensions (width, height), the header has exactly
\* the N = width * height labels 1..N, and there are N data rows of N cells.
C4_HeaderAndRows ==
    (Returned /\ Width > 0 /\ Height > 0) =>
        LET n == Width * Height
            h == Header(call.s)
        IN  /\ {SubSeq(h, w[1], w[2]) : w \in Words(h)} = {Str(i) : i \in 1..n}
            /\ Cardinality(Words(h)) = n
            /\ Len(DataRows(call.s)) = n
            /\ \A r \in Indices : Cardinality({idx \in DOMAIN call.cell : idx[1] = r}) = n

-----------------------------------------------------------------------------
(* C5 *)

\* C5: a call of view() that follows a call with the same board, list object
\* and configuration, with nothing changed in between, returns the same string.
C5_SameCallSameString ==
    (Returned /\ call.again) => call.s = call.prev_s

\* A repeated call that reused the caller's list and showed candidates
C5_Witness ==
    /\ Returned
    /\ call.again
    /\ call.args.use_list
    /\ call.args.include_candidates
    /\ Len(call.passed) > 0
    /\ call.s = call.prev_s

-----------------------------------------------------------------------------
(* C6 *)

\* C6: given a malformed configuration (a negative dimension), view() raises a
\* configuration error and returns no table.
C6_MalformedRaises ==
    (Returned /\ (Width < 0 \/ Height < 0)) => call.raised

-----------------------------------------------------------------------------
(* C7 *)

\* C7: a call of view() leaves the cell values and the candidate sets of the
\* board as they were, whatever include_candidates is.
C7_BoardUntouched ==
    [][View => (sudoku' = sudoku /\ candidates' = candidates)]_vars

-----------------------------------------------------------------------------
(* C8 *)

\* The text of a conflict or board provider for the value v
StyledValue(style, v) == <<"[">> \o style \o <<"]">> \o Str(v) \o <<"[", "/">> \o style \o <<"]">>

\* idx is flagged by a conflict provider of the list that was passed
FlaggedAt(idx, i) ==
    /\ call.passed[i].kind = "conflict"
    /\ idx \in DOMAIN call.passed[i].dict

\* C8 as stated: a cell flagged by a conflict provider of the passed list shows
\* its value in the conflict style, and a cell that is non-zero in init_sudoku
\* and in sudoku shows in init_style.
C8_AsStated ==
    Returned =>
        \A idx \in Coords :
            /\ \A i \in 1..Len(call.passed) :
                   FlaggedAt(idx, i) =>
                       call.cell[idx].val = StyledValue(call.passed[i].style, sudoku[idx])
            /\ (call.args.with_init /\ init_sudoku[idx] # 0 /\ sudoku[idx] # 0) =>
                   call.cell[idx].val = StyledValue(call.args.init_style, init_sudoku[idx])

\* C8, amended: a cell flagged by a conflict provider of the passed list, for
\* which no earlier provider of that list answers, shows its value in the
\* conflict style; a cell that is non-zero in init_sudoku and in sudoku, for
\* which no provider of the passed list answers, shows in init_style.
C8_CallerProvidersFirst ==
    Returned =>
        \A idx \in Coords :
            /\ \A i \in 1..Len(call.passed) :
                   (FlaggedAt(idx, i) /\ \A j \in Answering(call.passed, idx) : i <= j) =>
                       call.cell[idx].val = StyledValue(call.passed[i].style, sudoku[idx])
            /\ (/\ call.args.with_init
                /\ init_sudoku[idx] # 0
                /\ sudoku[idx] # 0
                /\ Answering(call.passed, idx) = {}) =>
                   call.cell[idx].val = StyledValue(call.args.init_style, init_sudoku[idx])

\* A flagged cell shows in the conflict style while another given cell, not
\* flagged, shows in init_style
C8_Witness ==
    /\ Returned
    /\ call.args.with_init
    /\ Len(call.passed) > 0
    /\ \E idx \in Coords :
           /\ FlaggedAt(idx, 1)
           /\ sudoku[idx] # 0
           /\ call.cell[idx].val = StyledValue(ConflictStyle, sudoku[idx])
    /\ \E idx \in Coords :
           /\ init_sudoku[idx] # 0
           /\ Answering(call.passed, idx) = {}
           /\ call.cell[idx].val = StyledValue(call.args.init_style, init_sudoku[idx])

-----------------------------------------------------------------------------
(* C9 *)

\* C9: the field width is the maximum of every provider's
\* max_display_length(), of the longest candidate text over the empty cells
\* when include_candidates, and of 1.
C9_FieldWidth ==
    Returned =>
        call.max_field_length =
            MaxOf({1}
                  \cup {MaxDisplayLength(call.configs[i]) : i \in 1..Len(call.configs)}
                  \cup (IF call.args.include_candidates
                        THEN {Len(call.args.candidate_prefix)
                                  + Len(Join(Ascending(candidates[idx]), call.number_sep)) :
                                  idx \in {x \in Coords : sudoku[x] = 0}}
                        ELSE {}))

-----------------------------------------------------------------------------
(* C10 *)

\* C10: a cell whose content came from a provider is padded with field width
\* minus the display length that provider reports, on the left when
\* align_right and on the right otherwise; a candidate cell is padded with
\* field width minus the length of its plain text, and the candidate style is
\* put around the padded text.
C10_Padding ==
    Returned =>
        \A idx \in Coords :
            LET c == call.cell[idx]
                f == call.max_field_length
                pad(k) == [i \in 1..k |-> SP]
                padded(k) == IF call.args.align_right THEN pad(k) \o c.val
                             ELSE c.val \o pad(k)
            IN  /\ c.winner # 0 =>
                       /\ f - DisplayLength(call.configs[c.winner], idx) >= 0
                       /\ c.col = padded(f - DisplayLength(call.configs[c.winner], idx))
                /\ (c.winner = 0 /\ sudoku[idx] = 0 /\ call.args.include_candidates) =>
                       /\ f - Len(c.val) >= 0
                       /\ c.col = IF call.args.candidate_style = NoneStr
                                  THEN padded(f - Len(c.val))
                                  ELSE <<"[">> \o call.args.candidate_style \o <<"]">>
                                           \o padded(f - Len(c.val))
                                           \o <<"[", "/">> \o call.args.candidate_style \o <<"]">>

\* A left-aligned table with a padded styled provider cell and a padded styled
\* candidate cell
C10_Witness ==
    /\ Returned
    /\ ~call.args.align_right
    /\ call.args.candidate_style # NoneStr
    /\ \E idx \in Coords :
           /\ call.cell[idx].winner # 0
           /\ Len(call.cell[idx].val) > DisplayLength(call.configs[call.cell[idx].winner], idx)
           /\ call.cell[idx].col # call.cell[idx].val
           /\ call.cell[idx].col[Len(call.cell[idx].col)] = SP
    /\ \E idx \in Coords :
           /\ call.cell[idx].winner = 0
           /\ sudoku[idx] = 0
           /\ call.args.include_candidates
           /\ Len(call.cell[idx].val) < call.max_field_length

-----------------------------------------------------------------------------
(* C11 *)

\* C11: the string view() returns does not end with a newline character.
C11_NoTrailingNewline ==
    Returned => call.s[Len(call.s)] # NL

-----------------------------------------------------------------------------
(* C12 *)

\* a and b are two cells of the same row, of the same column or of the same block
SameUnit(a, b) ==
    /\ a # b
    /\ \/ a[1] = b[1]
       \/ a[2] = b[2]
       \/ (a[1] \div Height = b[1] \div Height /\ a[2] \div Width = b[2] \div Width)

\* The cells of the current board whose non-zero value another cell of their
\* row, column or block holds too
Conflicting ==
    {idx \in Coords : sudoku[idx] # 0 /\ \E o \in Coords : SameUnit(idx, o) /\ sudoku[o] = sudoku[idx]}

\* C12: right after SudokuConflictsCustomViewConfig is constructed on a board,
\* the provider answers for a coordinate if and only if its cell holds a
\* non-zero value that another cell of its row, column or block holds too, and
\* both cells of every pair find_conflicts reports are flagged.
C12_FlaggedIffConflicting ==
    [][NewConflictConfig =>
          /\ \A idx \in Coords : (GetItem(configs'[1], idx) # NoneStr) <=> idx \in Conflicting
          /\ \A c \in FindConflicts(sudoku) : {c[1], c[2]} \subseteq DOMAIN configs'[1].dict]_vars

\* A conflict provider that flags the cells of a conflict of the current board
C12_Witness ==
    /\ call.stage = "idle"
    /\ Conflicting # {}
    /\ \E i \in 1..Len(configs) :
           /\ configs[i].kind = "conflict"
           /\ DOMAIN configs[i].dict = Conflicting
           /\ \A idx \in Conflicting : GetItem(configs[i], idx) = Markup(ConflictStyle, Str(sudoku[idx]))

-----------------------------------------------------------------------------
(* C13 *)

\* C13: the conflict provider computes its flagged set once, in its
\* constructor: over the steps that call its methods (a call of view()) or
\* mutate the board, find_conflicts is not called again and the flagged set of
\* every conflict provider of the list stays what it was.
C13_FlaggedSetComputedOnce ==
    [][(call.stage = "called" \/ sudoku' # sudoku) =>
          \A i \in 1..Len(configs) :
              configs[i].kind = "conflict" =>
                  /\ configs'[i].dict = configs[i].dict
                  /\ configs'[i].finds = 1]_vars

\* view() has used a conflict provider that was made before the board changed:
\* its flagged set is still the one of its construction
C13_Witness ==
    /\ Returned
    /\ \E i \in 1..Len(call.passed) :
           /\ call.passed[i].kind = "conflict"
           /\ call.passed[i].dict # InitConflictDict(sudoku)
           /\ configs[i].dict = call.passed[i].dict
           /\ configs[i].finds = 1
           /\ \E idx \in DOMAIN configs[i].dict : call.cell[idx].winner = i

-----------------------------------------------------------------------------
(* C14 *)

\* The visible characters of a fragment: the fragment without its style tags
Visible(frag) == StripMarkup(frag)

\* C14: for every provider of the list view() used (board providers, dict
\* providers with plain-text values, conflict providers) and every coordinate,
\* display_length is the number of visible characters of the fragment
\* __getitem__ returns, and 0 when __getitem__ returns None.
C14_DisplayLengthIsVisibleLength ==
    Returned =>
        \A i \in 1..Len(call.configs) : \A idx \in Coords :
            LET frag == GetItem(call.configs[i], idx)
            IN  DisplayLength(call.configs[i], idx) =
                    IF frag = NoneStr THEN 0 ELSE Len(Visible(frag))

\* A list with a conflict provider that answers in its style, a dict provider
\* with a text of two characters, and a board provider that returns None for
\* a coordinate
C14_Witness ==
    /\ Returned
    /\ \E i \in 1..Len(call.configs) : \E idx \in Coords :
           /\ call.configs[i].kind = "conflict"
           /\ GetItem(call.configs[i], idx) = Markup(ConflictStyle, Str(sudoku[idx]))
           /\ DisplayLength(call.configs[i], idx) = 1
    /\ \E i \in 1..Len(call.configs) : \E idx \in Coords :
           /\ call.configs[i].kind = "dict"
           /\ DisplayLength(call.configs[i], idx) = 2
           /\ Len(GetItem(call.configs[i], idx)) > 2
    /\ \E i \in 1..Len(call.configs) : \E idx \in Coords :
           /\ call.configs[i].kind = "sudoku"
           /\ GetItem(call.configs[i], idx) = NoneStr
           /\ DisplayLength(call.configs[i], idx) = 0

-----------------------------------------------------------------------------
(* C15 *)

\* C15: the separator view() joins candidate values with is empty when every
\* value of the board's alphabet 1..N is a single digit (N <= 9) and a comma
\* otherwise, whatever text the providers of the list contribute.
C15_SeparatorFollowsAlphabet ==
    (Returned /\ Width > 0 /\ Height > 0) =>
        call.number_sep = IF Width * Height <= 9 THEN <<>> ELSE <<",">>

-----------------------------------------------------------------------------
(* C16 *)

\* C16: during a call of view(), sudoku.get_candidates is called for a cell
\* only if the cell's value is 0 and include_candidates is True.
C16_LookupOnlyForEmptyCells ==
    Returned =>
        \A idx \in call.lookups : sudoku[idx] = 0 /\ call.args.include_candidates

-----------------------------------------------------------------------------
(* C17 *)

\* The number of the characters of line that are c
Count(line, c) == Cardinality({i \in 1..Len(line) : line[i] = c})

\* C17: in every data row of a board with block width w and N columns, the
\* cell of column k < N is followed by a thick vertical separator if k is a
\* multiple of w and by a thin one otherwise, and the cell of the last column
\* N by no separator, only by the closing frame bar.
C17_ColumnSeparators ==
    (Returned /\ Width > 0 /\ Height > 0) =>
        LET n == Width * Height
        IN  /\ \A k \in 1..n :
                   call.seps[k] = IF k = n THEN <<>>
                                  ELSE IF k % Width = 0 THEN <<<<HeavyV>>>>
                                  ELSE <<<<LightV>>>>
            /\ \A r \in 1..Len(DataRows(call.s)) :
                   /\ Count(DataRows(call.s)[r], LightV) = n - Height
                   /\ Count(DataRows(call.s)[r], HeavyV) = Height + 1

-----------------------------------------------------------------------------
(* C18 *)

\* What a line of the table is: a data row, one of the four horizontal lines,
\* a data row with a rule on the same line, or an empty line
LineKind(line) ==
    LET t == Trimmed(StripMarkup(line))
    IN  IF t = <<>> THEN "empty"
        ELSE IF Count(line, HeavyV) > 0
             THEN IF Count(line, ThinLeft) + Count(line, RuleLeft) > 0
                  THEN "row and rule" ELSE "row"
        ELSE IF t[1] = TopLeft THEN "top"
        ELSE IF t[1] = BotLeft THEN "bottom"
        ELSE IF t[1] = RuleLeft THEN "thick"
        ELSE IF t[1] = ThinLeft THEN "thin"
        ELSE "other"

\* C18: for a board with block height h and N rows, the lines after the header
\* are the top frame, then the N data rows with exactly one rule after each
\* row r < N, thick if r is a multiple of h and thin otherwise, then, right
\* after the last data row, the bottom frame.
C18_HorizontalRules ==
    (Returned /\ Width > 0 /\ Height > 0) =>
        LET n == Width * Height
            ls == Lines(call.s)
            expected(k) == IF k = 1 THEN "top"
                           ELSE IF k = 2 * n + 1 THEN "bottom"
                           ELSE IF k % 2 = 0 THEN "row"
                           ELSE IF ((k - 1) \div 2) % Height = 0 THEN "thick"
                           ELSE "thin"
        IN  /\ Len(ls) >= 2 * n + 2
            /\ \A k \in 1..(2 * n + 1) : LineKind(ls[k + 1]) = expected(k)
            /\ \A k \in (2 * n + 3)..Len(ls) : LineKind(ls[k]) = "empty"

-----------------------------------------------------------------------------
(* C19 *)

\* C19: when view() returns, the list object passed as custom_view_configs
\* holds the same providers, in the same order, as before the call.
C19_ListUnchanged ==
    (Returned /\ call.args.use_list) => configs = call.passed

-----------------------------------------------------------------------------
(* C20 *)

\* The last operation was a trigger or trigger_sync of a manager that is
\* not disabled
Triggered == result.op \in {"trigger", "trigger_sync"} /\ ~manager.disabled

\* The callbacks registered for the signal that was triggered
TriggeredFns == {manager.callbacks[result.signal][i].fn :
                    i \in 1..Len(manager.callbacks[result.signal])}

\* C20: on an enabled manager, trigger and trigger_sync raise
\* CallbackInterrupted if at least one callback registered for the signal
\* returns the bool False, and return normally if every registered callback
\* returns a value other than False without raising.
C20_InterruptedIffFalse ==
    Triggered =>
        /\ (\E fn \in TriggeredFns :
                /\ CallFn(fn, result.op).res = "False"
                /\ ~CallFn(fn, result.op).raised)
               => result.outcome = "CallbackInterrupted"
        /\ (\A fn \in TriggeredFns :
                /\ CallFn(fn, result.op).res # "False"
                /\ ~CallFn(fn, result.op).raised)
               => result.outcome = "returned"

-----------------------------------------------------------------------------
(* C21 *)

\* The keys of the callbacks registered for the signal that was triggered, in
\* registration order
TriggeredKeys ==
    [i \in 1..Len(manager.callbacks[result.signal]) |->
        manager.callbacks[result.signal][i].key]

-----------------------------------------------------------------------------
(* C22 *)

\* The positions, among the callbacks that were invoked, of those that raised
RaisedAt ==
    {i \in 1..Len(result.invoked) :
        CallFn(manager.callbacks[result.signal][i].fn, result.op).raised}

\* C22: an exception a callback raises escapes trigger and trigger_sync if and
\* only if ignore_all_exceptions is False; when it is True the exception is
\* swallowed and the remaining callbacks of the signal are still invoked.
C22_EscapesIffNotIgnored ==
    Triggered =>
        /\ (result.outcome = "exception") <=>
               (RaisedAt # {} /\ ~manager.ignore_all_exceptions)
        /\ manager.ignore_all_exceptions => result.invoked = TriggeredKeys

\* With ignore_all_exceptions, the first callback raised and the second one
\* was invoked after it
C22_Witness ==
    /\ Triggered
    /\ manager.ignore_all_exceptions
    /\ 1 \in RaisedAt
    /\ Len(result.invoked) = 2
    /\ result.outcome # "exception"

-----------------------------------------------------------------------------
(* C23 *)

\* The positions, among the callbacks that were invoked, of those whose
\* result the manager took for an interrupt (res == False)
InterruptedAt ==
    {i \in 1..Len(result.invoked) :
        LET c == CallFn(manager.callbacks[result.signal][i].fn, result.op)
        IN  ~c.raised /\ PyEqFalse(c.res)}

\* The largest position of a set of positions
LastOf(S) == CHOOSE i \in S : \A j \in S : j <= i

-----------------------------------------------------------------------------
(* C25 *)

\* C25: an add whose key is already registered for the signal raises KeyError
\* and leaves the registered callbacks as they were; it never replaces the
\* callback registered under that key.
C25_AddRejectsDuplicateKey ==
    [][(/\ result'.op = "add"
        /\ result'.signal \in DOMAIN manager.callbacks
        /\ result'.key \in DictKeys(manager.callbacks[result'.signal]))
       => (/\ result'.outcome = "KeyError"
           /\ manager'.callbacks = manager.callbacks)]_vars

-----------------------------------------------------------------------------
(* The command line: SudokuCLI and StepCLI (src/cli/sudoku.py, step.py) *)

\* put_steps is allowed to grow to this many entries
MaxSteps == 1

\* copy.deepcopy(self.sudoku) returning its argument instead of a new object
DeepcopySharesAlways == TRUE

\* Whether copy.deepcopy(self.sudoku) is the object self.sudoku: it never is
DeepcopyShares == FALSE

\* The cell of the k-th character of an encoded board, row by row
CellAt(k) == <<(k - 1) \div (Width * Height), (k - 1) % (Width * Height)>>

\* Sudoku.encode(): str(number) of every cell, row by row, without separators
Encode(board) ==
    Concat([k \in 1..(Width * Height * Width * Height) |-> Str(board[CellAt(k)])])

\* int(g) of a character g: the digit's value, NoneInt where int() raises
IntOf(g) ==
    IF \E d \in 0..9 : DigitChars[d + 1] = g
    THEN CHOOSE d \in 0..9 : DigitChars[d + 1] = g
    ELSE NoneInt

\* Sudoku.decode(s) raises: s is not one decimal digit per cell of the board
DecodeRaises(s) ==
    \/ s = NoneStr
    \/ Len(s) # Width * Height * Width * Height
    \/ \E k \in 1..Len(s) : IntOf(s[k]) = NoneInt

\* Sudoku.decode(s): the k-th character is the number of the k-th cell
Decode(s) == [idx \in Coords |-> IntOf(s[idx[1] * Width * Height + idx[2] + 1])]

\* generate() and generate_from_template() return a board with a unique
\* solution: this is the solution of the boards of the model
SolvedBoard ==
    [idx \in Coords |->
        ((Width * (idx[1] % Height) + (idx[1] \div Height) + idx[2]) % (Width * Height)) + 1]

\* board with the cells of H emptied
Emptied(board, H) == [idx \in Coords |-> IF idx \in H THEN 0 ELSE board[idx]]

\* The boards generate() returns
GeneratedBoards ==
    {Emptied(SolvedBoard, {<<0, 0>>}), Emptied(SolvedBoard, {<<0, 0>>, <<0, 1>>})}

\* The strings given to loadgame: an exported game, and a string decode()
\* rejects
LoadStrings ==
    {Encode(Emptied(SolvedBoard, {<<0, 0>>})),
     <<"x">> \o Tail(Encode(SolvedBoard))}

\* The arguments of put: args.row, args.column (from 1) and args.value; the
\* cell of row 1, column 3 is a given cell of the generated boards
PutRows == {1}
PutColumns == {1, 3}
PutArgValues == {0, 1, 2}

\* The number of arguments do_put passes to trigger_sync after the signal:
\* row, col, val, self.sudoku
PutArgCount == 4

\* The named parameters of before_put_hook before *args: time, r, c, v
BeforeHookParams == 4

\* StepCLI.before_put_hook as a callback: it raises IndexError on args[0]
\* unless it is called with more arguments than it has named parameters
BeforePutHook ==
    [name |-> "before_put_hook", ret |-> "None", async |-> FALSE,
     raises |-> PutArgCount <= BeforeHookParams]

\* StepCLI.after_put_hook as a callback
AfterPutHook ==
    [name |-> "after_put_hook", ret |-> "None", async |-> FALSE, raises |-> FALSE]

\* A callback that interrupts the put: it returns False
Blocker == [name |-> "no", ret |-> "False", async |-> FALSE, raises |-> FALSE]

\* What a callback appends to put_steps when it is called with args
HookEntries(fn, args) ==
    IF fn.name = "before_put_hook"
    THEN IF Len(args) > BeforeHookParams
         THEN <<[kind |-> "before", value |-> <<args[BeforeHookParams + 1]>>]>>
         ELSE <<>>
    ELSE IF fn.name = "after_put_hook"
    THEN <<[kind |-> "after", value |-> args]>>
    ELSE <<>>

\* What the callbacks a trigger invoked have appended to put_steps; r is the
\* trigger's result
AppendedBy(r, args) ==
    Concat([i \in 1..Len(r.invoked) |->
                LET fn == manager.callbacks[r.signal][i].fn
                IN  IF CallFn(fn, r.op).raised THEN <<>> ELSE HookEntries(fn, args)])

\* finished that is also cleared by a conflict
GameFinishedWithoutConflict(board) ==
    /\ \A k \in 1..Len(Encode(board)) : IntOf(Encode(board)[k]) # 0
    /\ FindConflicts(board) = {}

\* do_check's `finished`: no character g of self.sudoku.encode() has int(g) == 0
GameFinished(board) ==
    LET game_str == Encode(board)
    IN  \A k \in 1..Len(game_str) : IntOf(game_str[k]) # 0

\* What do_check prints: one line per triple find_conflicts yields, 'No
\* conflict detected!' if there was none, and the congratulation if finished
CheckOutput(board) ==
    LET conflicts == FindConflicts(board)
    IN  [conflict_lines |-> Cardinality(conflicts),
         no_conflict |-> conflicts = {},
         finished |-> GameFinished(board)]

\* do_check has not run: nothing of it was printed
NoCheckOutput == [conflict_lines |-> 0, no_conflict |-> FALSE, finished |-> FALSE]

\* The given-cell check that lets every cell through
IsGivenNever(board, idx) == FALSE

\* if self.init_sudoku[args.row - 1, args.column - 1] != 0
IsGiven(board, idx) == board[idx] # 0

\* The init_sudoku export_game() hands to the file, `self.init_sudoku or None`:
\* None (null in the file) only if the object is false
InitOrNone(board) == IF board = NoneDict THEN NoneStr ELSE Encode(board)

\* SudokuCLI.__init__: a generated game, no callback on put_callbacks. The
\* boards of this specification are 4 x 4: the commands treat every size of
\* board alike.
InitCLI ==
    /\ size = <<2, 2>>
    /\ sudoku \in GeneratedBoards
    /\ init_sudoku = sudoku
    /\ candidates = [idx \in Coords |-> {}]
    /\ configs = <<>>
    /\ call = NoCall
    /\ manager = NewCallbackManager
    /\ result = NoResult
    /\ cli = [NewCli EXCEPT !.last = [cmd |-> "newgame"], !.aliased = DeepcopyShares]

\* do_newgame: create_new_game assigns the generated board and its deep copy
DoNewgame(board) ==
    /\ sudoku' = board
    /\ init_sudoku' = board
    /\ cli' = [cli EXCEPT !.last = [cmd |-> "newgame"], !.aliased = DeepcopyShares]
    /\ UNCHANGED <<size, candidates, configs, call, cb_vars>>

\* do_loadgame: with a file argument the two boards of the file are decoded
\* (a missing file or a rejected string leaves both boards as they were);
\* with a string argument it is decoded and deep-copied
DoLoadgame(file, string) ==
    LET file_ok == file /\ ~DecodeRaises(cli.file.sudoku)
                        /\ (cli.file.init_sudoku = NoneStr
                               \/ ~DecodeRaises(cli.file.init_sudoku))
        sudoku1 == IF file_ok THEN Decode(cli.file.sudoku) ELSE sudoku
        init1 == IF ~file_ok THEN init_sudoku
                 ELSE IF cli.file.init_sudoku # NoneStr THEN Decode(cli.file.init_sudoku)
                 ELSE sudoku1
        aliased1 == IF ~file_ok THEN cli.aliased
                    ELSE IF cli.file.init_sudoku # NoneStr THEN FALSE
                    ELSE DeepcopyShares
        string_ok == string # NoneStr /\ ~DecodeRaises(string)
    IN  /\ sudoku' = IF string_ok THEN Decode(string) ELSE sudoku1
        /\ init_sudoku' = IF string_ok THEN Decode(string) ELSE init1
        /\ cli' = [cli EXCEPT !.last = [cmd |-> "loadgame"],
                              !.aliased = IF string_ok THEN DeepcopyShares ELSE aliased1]
        /\ UNCHANGED <<size, candidates, configs, call, cb_vars>>

\* do_export: with --single-line it prints and returns; with a file argument
\* it writes the encoded boards of export_game()
DoExport(single_line, to_file) ==
    /\ cli' = [cli EXCEPT
                   !.last = [cmd |-> "export"],
                   !.file = IF ~single_line /\ to_file
                            THEN [sudoku |-> Encode(sudoku),
                                  init_sudoku |-> InitOrNone(init_sudoku)]
                            ELSE cli.file]
    /\ UNCHANGED <<view_vars, cb_vars>>

\* do_check
DoCheck ==
    /\ cli' = [cli EXCEPT !.last = [cmd |-> "check", out |-> CheckOutput(sudoku)]]
    /\ UNCHANGED <<view_vars, cb_vars>>

\* do_put: trigger_sync("before", row, col, val, self.sudoku); return if it
\* was interrupted (any other exception leaves do_put); return if the cell is
\* a given one; write the value; do_show and do_check, which assign nothing;
\* trigger_sync("after", ...), whose exceptions leave do_put
DoPut(row, col, val) ==
    LET idx == <<row - 1, col - 1>>
        args == <<row - 1, col - 1, val, "sudoku">>
        before == TriggerResult("trigger_sync", "before")
        after == TriggerResult("trigger_sync", "after")
        proceeds == before.outcome = "returned" /\ ~IsGiven(init_sudoku, idx)
        written == [sudoku EXCEPT ![idx] = val]
        steps == cli.put_steps \o AppendedBy(before, args)
                     \o (IF proceeds THEN AppendedBy(after, args) ELSE <<>>)
        cbs1 == IF manager.disabled THEN manager.callbacks
                ELSE SetDefault(manager.callbacks, "before")
        cbs2 == IF manager.disabled \/ ~proceeds THEN cbs1 ELSE SetDefault(cbs1, "after")
    IN  /\ Len(steps) <= MaxSteps
        /\ sudoku' = IF proceeds THEN written ELSE sudoku
        /\ init_sudoku' = IF proceeds /\ cli.aliased THEN written ELSE init_sudoku
        /\ manager' = [manager EXCEPT !.callbacks = cbs2]
        /\ cli' = [cli EXCEPT
                       !.put_steps = steps,
                       !.last = [cmd |-> "put", row |-> row, column |-> col, value |-> val,
                                 before |-> before.outcome,
                                 after |-> IF proceeds THEN after.outcome ELSE "none",
                                 events |-> IF proceeds
                                            THEN <<"before", "write", "show", "check", "after">>
                                            ELSE <<"before">>,
                                 out |-> IF proceeds THEN CheckOutput(written)
                                         ELSE NoCheckOutput]]
        /\ UNCHANGED <<size, candidates, configs, call, result>>

\* StepCLI(sudoku_cli): an empty put_steps, and the two hooks added to
\* put_callbacks under their __name__
NewStepCLI ==
    LET cbs1 == SetDefault(manager.callbacks, "before")
        cbs2 == [cbs1 EXCEPT !["before"] = DictSet(cbs1["before"], "before_put_hook",
                                                   BeforePutHook)]
        cbs3 == SetDefault(cbs2, "after")
    IN  /\ ~cli.step_cli
        /\ manager' = [manager EXCEPT
                           !.callbacks = [cbs3 EXCEPT !["after"] =
                               DictSet(cbs3["after"], "after_put_hook", AfterPutHook)]]
        /\ cli' = [cli EXCEPT !.step_cli = TRUE, !.put_steps = <<>>,
                              !.last = [cmd |-> "step_cli"]]
        /\ UNCHANGED <<view_vars, result>>

\* put_callbacks.add("before", fn) by a client of SudokuCLI
AddPutCallback(fn) ==
    LET cbs == SetDefault(manager.callbacks, "before")
    IN  /\ manager' = [manager EXCEPT
                           !.callbacks = [cbs EXCEPT !["before"] =
                               DictSet(cbs["before"], fn.name, fn)]]
        /\ cli' = [cli EXCEPT !.last = [cmd |-> "add"]]
        /\ UNCHANGED <<view_vars, result>>

\* put_callbacks.ignore_all_exceptions = b
SetPutIgnoreAllExceptions(b) ==
    /\ manager' = [manager EXCEPT !.ignore_all_exceptions = b]
    /\ cli' = [cli EXCEPT !.last = [cmd |-> "set"]]
    /\ UNCHANGED <<view_vars, result>>

NextCLI ==
    \/ \E board \in GeneratedBoards : DoNewgame(board)
    \/ \E file \in BOOLEAN, string \in LoadStrings \cup {NoneStr} : DoLoadgame(file, string)
    \/ \E single_line, to_file \in BOOLEAN : DoExport(single_line, to_file)
    \/ DoCheck
    \/ \E row \in PutRows, col \in PutColumns, val \in PutArgValues : DoPut(row, col, val)
    \/ NewStepCLI
    \/ AddPutCallback(Blocker)
    \/ \E b \in BOOLEAN : SetPutIgnoreAllExceptions(b)

SpecCLI == InitCLI /\ [][NextCLI]_vars

-----------------------------------------------------------------------------
(* C24 *)

\* The positions of an event in the trace of a put
EventsAt(l, e) == {i \in 1..Len(l.events) : l.events[i] = e}

\* C24: a put that a 'before' callback interrupts, or whose cell is a given
\* one, leaves the board as it was and does not trigger 'after'; every put
\* triggers 'after' at most once, and only after it has written the value.
C24_PutGuards ==
    [][cli'.last.cmd = "put" =>
          LET l == cli'.last
              idx == <<l.row - 1, l.column - 1>>
          IN  /\ (l.before = "CallbackInterrupted" \/ init_sudoku[idx] # 0) =>
                     /\ sudoku' = sudoku
                     /\ EventsAt(l, "after") = {}
                     /\ l.after = "none"
              /\ Cardinality(EventsAt(l, "after")) <= 1
              /\ \A i \in EventsAt(l, "after") :
                     /\ \E j \in EventsAt(l, "write") : j < i
                     /\ sudoku'[idx] = l.value]_vars

\* A put on an empty cell that a 'before' callback interrupted
C24_Witness ==
    /\ cli.last.cmd = "put"
    /\ cli.last.before = "CallbackInterrupted"
    /\ init_sudoku[<<cli.last.row - 1, cli.last.column - 1>>] = 0
    /\ cli.last.value # sudoku[<<cli.last.row - 1, cli.last.column - 1>>]
    /\ cli.last.events = <<"before">>

-----------------------------------------------------------------------------
(* C26 *)

\* C26: after every newgame, loadgame (of a string, or of the file export
\* wrote) and put, every cell that is not 0 in init_sudoku holds the same
\* value in sudoku; init_sudoku is never the object sudoku, and a put leaves
\* it as it was.
C26_GivensKept ==
    [][/\ \A idx \in Coords : init_sudoku'[idx] # 0 => sudoku'[idx] = init_sudoku'[idx]
       /\ ~cli'.aliased
       /\ cli'.last.cmd = "put" => init_sudoku' = init_sudoku]_vars

\* A put of another value on a given cell of a game that was exported to the
\* file with a cell already filled in
C26_Witness ==
    /\ cli.last.cmd = "put"
    /\ init_sudoku[<<cli.last.row - 1, cli.last.column - 1>>] # 0
    /\ cli.last.value # init_sudoku[<<cli.last.row - 1, cli.last.column - 1>>]
    /\ cli.last.before = "returned"
    /\ sudoku # init_sudoku
    /\ cli.file.sudoku = Encode(sudoku)
    /\ cli.file.init_sudoku = Encode(init_sudoku)

-----------------------------------------------------------------------------
(* C29 *)

\* The last command has run do_check on the board as it is now
Checked ==
    \/ cli.last.cmd = "check"
    \/ cli.last.cmd = "put" /\ EventsAt(cli.last, "check") # {}

\* C29: do_check prints the congratulation exactly when no cell of the board
\* is 0, whether or not it has printed conflicts, and prints 'No conflict
\* detected' exactly when find_conflicts yields nothing, which is when no
\* conflict line is printed.
C29_CheckOutput ==
    Checked =>
        /\ cli.last.out.finished <=> (\A idx \in Coords : sudoku[idx] # 0)
        /\ cli.last.out.no_conflict <=> (Conflicting = {})
        /\ cli.last.out.no_conflict <=> (cli.last.out.conflict_lines = 0)

\* do_check has printed conflicts and the congratulation
C29_Witness ==
    /\ Checked
    /\ cli.last.out.finished
    /\ cli.last.out.conflict_lines > 0
    /\ ~cli.last.out.no_conflict

-----------------------------------------------------------------------------
(* C30 *)

\* The callbacks of put_callbacks are the two hooks of a StepCLI and no other
OnlyStepHooks ==
    /\ cli.step_cli
    /\ DictKeys(manager.callbacks["before"]) = {"before_put_hook"}
    /\ DictKeys(manager.callbacks["after"]) = {"after_put_hook"}

\* C30: with the hooks of StepCLI registered, every put on a cell that is not
\* a given one writes the value to the board, appends one 'before' entry and
\* then one 'after' entry to put_steps, and no exception leaves do_put.
C30_HooksRecordEveryPut ==
    [][(/\ cli'.last.cmd = "put"
        /\ OnlyStepHooks
        /\ init_sudoku[<<cli'.last.row - 1, cli'.last.column - 1>>] = 0)
       => (/\ sudoku'[<<cli'.last.row - 1, cli'.last.column - 1>>] = cli'.last.value
           /\ Len(cli'.put_steps) = Len(cli.put_steps) + 2
           /\ SubSeq(cli'.put_steps, 1, Len(cli.put_steps)) = cli.put_steps
           /\ cli'.put_steps[Len(cli.put_steps) + 1].kind = "before"
           /\ cli'.put_steps[Len(cli.put_steps) + 2].kind = "after"
           /\ cli'.last.before = "returned"
           /\ cli'.last.after = "returned")]_vars

-----------------------------------------------------------------------------
(* C27 *)

\* The junction characters of the thick kind and of the thin kind, and the
\* characters a segment is drawn with
ThickJunctions == {RuleThick, TopThick, BotThick, ThinThick}
ThinJunctions == {RuleThin, TopThin, BotThin, ThinThin}
SegmentChars == {HeavyH, LightH}

\* C27: on a board of block dimensions (width, height), every horizontal line
\* (top frame, thick rule, thin rule, bottom frame) is made of N = width *
\* height segments of field width + 2 rule characters with N - 1 junctions
\* between them, the junction after segment k being thick exactly when k is a
\* multiple of width, and the line is as wide as the header line.
C27_RuleSegments ==
    (Returned /\ Width > 0 /\ Height > 0) =>
        LET n == Width * Height
            f == call.max_field_length
            ls == Lines(call.s)
        IN  \A i \in 1..Len(ls) :
                LineKind(ls[i]) \in {"top", "thick", "thin", "bottom"} =>
                    LET t == Trimmed(StripMarkup(ls[i]))
                    IN  /\ Len(t) = n * (f + 2) + (n - 1) + 2
                        /\ \A p \in 2..(Len(t) - 1) :
                               IF (p - 1) % (f + 3) = 0
                               THEN IF ((p - 1) \div (f + 3)) % Width = 0
                                    THEN t[p] \in ThickJunctions
                                    ELSE t[p] \in ThinJunctions
                               ELSE t[p] \in SegmentChars
                        /\ Len(StripMarkup(ls[i])) = Len(Header(call.s))

-----------------------------------------------------------------------------
(* C28 *)

\* The positions of the conflict providers in the caller's list
ConflictConfigs == {i \in 1..Len(configs) : configs[i].kind = "conflict"}

\* C28 as stated: over every mutation of the board, a conflict provider made
\* before it returns a fragment only for cells that are not 0 now, and the
\* fragment of a flagged cell still shows the value the cell had before, the
\* one that was in conflict when the flagged set was computed.
C28_AsStated ==
    [][sudoku' # sudoku =>
          \A i \in ConflictConfigs : \A idx \in Coords :
              GetItem(configs[i], idx)' # NoneStr =>
                  /\ sudoku'[idx] # 0
                  /\ GetItem(configs[i], idx)' = GetItem(configs[i], idx)]_vars

\* C28, amended: over every mutation of the board, a conflict provider made
\* before it returns a fragment for exactly the cells it returned one for
\* before, those flagged at its construction, and the fragment shows the
\* value the cell holds now, which may be 0 or a value that is in no conflict.
C28_StaleFlagsCurrentValue ==
    [][sudoku' # sudoku =>
          \A i \in ConflictConfigs : \A idx \in Coords :
              /\ (GetItem(configs[i], idx)' # NoneStr) <=> (GetItem(configs[i], idx) # NoneStr)
              /\ GetItem(configs[i], idx)' # NoneStr =>
                     /\ idx \in DOMAIN configs[i].dict
                     /\ Visible(GetItem(configs[i], idx)') = Str(sudoku'[idx])]_vars

\* A cell that a conflict provider flagged has been emptied since, and view()
\* has shown it as a 0 in the conflict style
C28_Witness ==
    /\ Returned
    /\ \E i \in 1..Len(call.passed) : \E idx \in Coords :
           /\ FlaggedAt(idx, i)
           /\ sudoku[idx] = 0
           /\ GetItem(call.passed[i], idx) = Markup(ConflictStyle, <<"0">>)
           /\ call.cell[idx].winner = i
           /\ call.cell[idx].val = Markup(ConflictStyle, <<"0">>)

====
